---- MODULE Spec2Model ----
(***************************************************************************)
(* Akari: the host-side Control Server (crates/server/src/main.rs,         *)
(* ContainerService), its container state map and its two channels to the  *)
(* VM thread.                                                              *)
(*                                                                         *)
(* The RPC handlers run as concurrent tasks.  A handler that takes the     *)
(* state-map write lock and has a single await inside is one action; the   *)
(* handlers that hold a lock across several awaits (do_create, do_state)   *)
(* are one action per await.  The VM thread is the consumer of the command *)
(* channel and the only producer of the data channel.                      *)
(***************************************************************************)
EXTENDS Integers, Sequences, FiniteSets, TLC

\* ---------------------------------------------------------------- bounds
NumTasks == 2
MaxCalls == 3
PortSpan == 1
MaxData == 1
MaxChunks == 2
MaxStrLen == 1
MaxFrames == 2
MaxCmds == 3

\* ------------------------------------------------------ program constants
DEFAULT_MIN_PORT == 1234
CmdChannelCapacity == 8
DataChannelCapacity == 8

Tasks == 1..NumTasks
Ids == {"a", "b", "c"}
Bundles == {"/b/c1", "/b/c2"}
Ports == DEFAULT_MIN_PORT..(DEFAULT_MIN_PORT + PortSpan)

VmStatus == {"Creating", "Created", "Running", "Stopped"}
Ops == {"create", "start", "kill", "delete", "state", "connect"}

VARIABLES
    state_map,    \* ContainerService.state_map: id -> ContainerState
    lock_writer,  \* the task holding the state-map write lock (a set: empty or one task)
    lock_readers, \* the tasks holding the state-map read lock
    cmd_chan,     \* the commands in the mpsc channel cmd_tx -> cmd_rx
    data_chan,    \* the ports of the (port, data) pairs in data_tx -> data_rx
    vm_thread,    \* "running" | "dead": whether cmd_rx and data_tx still exist
    connected,    \* the ports the VM thread has connected and not disconnected
    pc,           \* each task's position in its handler
    req,          \* each task's current request
    port_local,   \* do_create's local variable port
    last,         \* the last RPC that returned: its task, request and result
    allocated,    \* history: the ports stored by the creates that succeeded
    calls         \* number of RPCs received so far

VARIABLES
    api_state_map, \* ApiServer.state_map: id -> VmState
    api_creating,  \* the id whose create holds the write lock, or "-"
    api_thread,    \* each id's VM thread: "none" | "running" | "dead"
    api_cmds,      \* each id's command channel cmd_tx -> cmd_rx
    api_last,      \* the last RPC that returned, and its result
    api_port,      \* the port argument of the RPC being served (0: it has none)
    api_calls      \* number of RPCs received so far

api_vars == <<api_state_map, api_creating, api_thread, api_cmds, api_last, api_port,
             api_calls>>

server_vars == <<state_map, lock_writer, lock_readers, cmd_chan, data_chan,
                 vm_thread, connected, pc, req, port_local, last, allocated, calls>>

VARIABLES
    vsock_queues, \* Vm.vsock_queues: port -> (txq, rxq)
    vm_conn,      \* each port's VZVirtioSocketConnection:
                  \* "none" | "requested" | "open" | "refused" | "closed"
    vm_crashed,   \* a callback on the VM's dispatch queue has panicked
    vm_last,      \* the last Vm call that returned, and its result
    vm_sent,      \* history: per port, the chunks handed to vsock_send
    vm_written,   \* history: per port, the chunks written to the guest stream
    vm_read,      \* history: per port, the chunks read from the guest stream
    vm_recvd,     \* history: per port, the chunks vsock_recv returned
    vm_calls      \* number of Vm calls made so far

vm_vars == <<vsock_queues, vm_conn, vm_crashed, vm_last, vm_sent, vm_written,
             vm_read, vm_recvd, vm_calls>>

VARIABLES
    fr_type,   \* the message type sent on the stream: "-" until the first send
    fr_stream, \* the bytes written to the stream and not yet read
    fr_closed, \* the writing end of the stream is gone
    fr_writing,\* the value whose send has written its JSON text and not yet the NUL
    fr_pc,     \* the reader: "idle" | "reading" (inside recv)
    fr_buf,    \* recv's local buf
    fr_sent,   \* history: the values whose send returned Ok
    fr_recvd   \* history: the results of the recv calls that returned

fr_vars == <<fr_type, fr_stream, fr_closed, fr_writing, fr_pc, fr_buf, fr_sent, fr_recvd>>

VARIABLES
    eng_main,     \* main: "init" (the VM thread is spawned) | "serving" (Start is sent)
    eng_chan,     \* the command channel cmd_tx -> cmd_rx
    eng_thread,   \* vm_thread: "running" | "panicked" | "aborted"
    eng_cur,      \* the command whose Vm call handle_cmd is in: << >> or <<cmd>>
    eng_q,        \* that call's work on the serial queue: "none" | "block"
                  \* (enqueued) | "hv" (its completion handler is awaited)
    eng_reply,    \* the results on that call's reply channel
    eng_handlers, \* the connect completion handlers that have yet to fire: the
                  \* port, and whether the connect call still holds its rx
    eng_vm,       \* the virtual machine: "Stopped" | "Running" | "Error"
    eng_sent,     \* history: the commands sent on the command channel
    eng_done      \* history: the commands whose Vm call returned Ok

eng_vars == <<eng_main, eng_chan, eng_thread, eng_cur, eng_q, eng_reply,
              eng_handlers, eng_vm, eng_sent, eng_done>>

VARIABLES
    sh_state_map, \* Task.state_map: id -> VmState
    sh_creating,  \* the id whose create holds the write lock, or "-"
    sh_thread,    \* each id's VM thread: "none" | "running" | "dead"
    sh_cmds,      \* each id's command channel cmd_tx -> cmd_rx
    sh_last,      \* the last RPC that returned, and its result
    sh_poisoned,  \* a handler has panicked with the write guard held
    sh_calls      \* number of RPCs received so far

sh_vars == <<sh_state_map, sh_creating, sh_thread, sh_cmds, sh_last, sh_poisoned,
            sh_calls>>

not_server_vars == <<api_vars, vm_vars, fr_vars, eng_vars, sh_vars>>
not_api_vars == <<server_vars, vm_vars, fr_vars, eng_vars, sh_vars>>
not_vm_vars == <<server_vars, api_vars, fr_vars, eng_vars, sh_vars>>
not_fr_vars == <<server_vars, api_vars, vm_vars, eng_vars, sh_vars>>
not_eng_vars == <<server_vars, api_vars, fr_vars, sh_vars, vm_conn, vm_crashed, vm_last,
                  vm_sent, vm_written, vm_read, vm_recvd, vm_calls>>
not_sh_vars == <<server_vars, api_vars, vm_vars, fr_vars, eng_vars>>

vars == <<server_vars, api_vars, vm_vars, fr_vars, eng_vars, sh_vars>>

\* ------------------------------------------------------------- values
ContainerState(b, s, p) == [bundle |-> b, status |-> s, vsock_port |-> p]

Connect(p) == [cmd |-> "Connect", port |-> p, msg |-> "-"]
Disconnect(p) == [cmd |-> "Disconnect", port |-> p, msg |-> "-"]
VsockSend(p, m) == [cmd |-> "VsockSend", port |-> p, msg |-> m]
VmStart == [cmd |-> "Start", port |-> 0, msg |-> "-"]

\* Bytes that matter to the framing: NUL, the double quote, the backslash.
NUL == "NUL"
QUOTE == "QUOTE"
BSLASH == "BSLASH"

\* serde_json::to_string(&cmd).unwrap().as_bytes().to_vec() for a
\* ContainerCommand (camelCase): Create(spec) is {"create":<spec>}, a unit
\* variant is its name as a JSON string.  Nothing is appended to the text.
ContainerCommandMsg(c) ==
    CASE c = "Create" -> <<"{", QUOTE, "create", QUOTE, ":", "spec", "}">>
      [] c = "Delete" -> <<QUOTE, "delete", QUOTE>>
      [] c = "Kill" -> <<QUOTE, "kill", QUOTE>>
      [] c = "Start" -> <<QUOTE, "start", QUOTE>>
      [] c = "State" -> <<QUOTE, "state", QUOTE>>

Result(k) == [kind |-> k, status |-> "-", id |-> "-", bundle |-> "-"]
Ok == Result("Ok")
ContainerAlreadyExists == Result("ContainerAlreadyExists")
ContainerNotFound == Result("ContainerNotFound")
VmCommandFailed == Result("VmCommandFailed")
Panicked == Result("Panic")
NoResult == Result("-")
UnpextectedContainerStatus(s) ==
    [kind |-> "UnexpectedContainerStatus", status |-> s, id |-> "-", bundle |-> "-"]
Response(i, s, b) == [kind |-> "Response", status |-> s, id |-> i, bundle |-> b]

\* impl VmService for ContainerService: every handler answers Ok(_) with
\* Ok(Empty::new()) and Err(e) with Err(Error::Others(e.to_string())).
Empty == Result("Empty")
Others(e) == [kind |-> "Others", status |-> e.status, id |-> "-", bundle |-> e.kind]
VmServiceReply(r) == IF r.kind \in {"Ok", "Response"} THEN Empty ELSE Others(r)

NoReq == [op |-> "-", id |-> "-", bundle |-> "-", port |-> 0]
NoLast == [task |-> 0, op |-> "-", id |-> "-", ret |-> NoResult]

SetMax(S) == CHOOSE x \in S : \A y \in S : y <= x

\* HashMap::insert / HashMap::remove
MapInsert(m, k, v) == [x \in DOMAIN m \cup {k} |-> IF x = k THEN v ELSE m[x]]
MapRemove(m, k) == [x \in DOMAIN m \ {k} |-> m[x]]

\* --------------------------------------------------------------- locks
WriteLockFree == lock_writer = {} /\ lock_readers = {}
ReadLockFree == lock_writer = {}

\* mpsc::Sender::send(..).await: completes with an error once the receiver is
\* gone, completes when the channel has room, and waits otherwise.
SendReady == vm_thread = "dead" \/ Len(cmd_chan) < CmdChannelCapacity
SendFails == vm_thread = "dead"

\* ------------------------------------------------------------- Init
\* main: the VM thread is spawned, Start is sent to it, and the service
\* starts with an empty state map.
ServerInit ==
    /\ state_map = << >>
    /\ lock_writer = {}
    /\ lock_readers = {}
    /\ cmd_chan = <<VmStart>>
    /\ data_chan = << >>
    /\ vm_thread = "running"
    /\ connected = {}
    /\ pc = [t \in Tasks |-> "idle"]
    /\ req = [t \in Tasks |-> NoReq]
    /\ port_local = [t \in Tasks |-> 0]
    /\ last = NoLast
    /\ allocated = {}
    /\ calls = 0

\* An RPC arrives and is dispatched to a task (the first idle one), which then
\* waits for the lock.
Call(t, o, i, b, p) ==
    /\ pc[t] = "idle"
    /\ \A u \in Tasks : u < t => pc[u] # "idle"
    /\ calls < MaxCalls
    /\ calls' = calls + 1
    /\ req' = [req EXCEPT ![t] = [op |-> o, id |-> i, bundle |-> b, port |-> p]]
    /\ pc' = [pc EXCEPT ![t] = "called"]
    /\ UNCHANGED <<state_map, lock_writer, lock_readers, cmd_chan, data_chan,
                   vm_thread, connected, port_local, last, allocated>>
    /\ UNCHANGED not_server_vars

\* The handler of task t returns r to its caller.
Return(t, r) ==
    /\ last' = [task |-> t, op |-> req[t].op, id |-> req[t].id, ret |-> r]
    /\ pc' = [pc EXCEPT ![t] = "idle"]
    /\ req' = [req EXCEPT ![t] = NoReq]

\* ------------------------------------------------------------ do_create
\* DEFAULT_MIN_PORT - 1, then the maximum over the ports in use, plus one.
NextPort(m) ==
    SetMax({DEFAULT_MIN_PORT - 1} \cup {m[i].vsock_port : i \in DOMAIN m}) + 1

\* HashMap::contains_key
ContainsKeyNever(m, k) == FALSE
ContainsKey(m, k) == k \in DOMAIN m

do_create_lock(t) ==
    /\ pc[t] = "called" /\ req[t].op = "create"
    /\ WriteLockFree
    /\ IF ContainsKey(state_map, req[t].id)
       THEN /\ Return(t, ContainerAlreadyExists)
            /\ UNCHANGED <<lock_writer, port_local>>
       ELSE /\ NextPort(state_map) \in Ports
            /\ lock_writer' = {t}
            /\ port_local' = [port_local EXCEPT ![t] = NextPort(state_map)]
            /\ pc' = [pc EXCEPT ![t] = "create_connect"]
            /\ UNCHANGED <<last, req>>
    /\ UNCHANGED <<state_map, lock_readers, cmd_chan, data_chan, vm_thread,
                   connected, allocated, calls>>
    /\ UNCHANGED not_server_vars

\* read_to_string(config.json).unwrap() and Spec::load(..).unwrap(): the
\* bundle's configuration cannot be loaded and the handler panics (the write
\* guard is dropped while unwinding).
do_create_load_panic(t) ==
    /\ pc[t] = "called" /\ req[t].op = "create"
    /\ WriteLockFree
    /\ ~ContainsKey(state_map, req[t].id)
    /\ Return(t, Panicked)
    /\ UNCHANGED <<state_map, lock_writer, lock_readers, cmd_chan, data_chan,
                   vm_thread, connected, port_local, allocated, calls>>
    /\ UNCHANGED not_server_vars

\* cmd_tx.send(c).await.map_err(|_| VmCommandFailed)? inside do_create.
CreateSend(t, c, next) ==
    /\ SendReady
    /\ IF SendFails
       THEN /\ Return(t, VmCommandFailed)
            /\ lock_writer' = {}
            /\ port_local' = [port_local EXCEPT ![t] = 0]
            /\ UNCHANGED cmd_chan
       ELSE /\ cmd_chan' = Append(cmd_chan, c)
            /\ pc' = [pc EXCEPT ![t] = next]
            /\ UNCHANGED <<last, req, lock_writer, port_local>>
    /\ UNCHANGED <<state_map, lock_readers, data_chan, vm_thread, connected,
                   allocated, calls>>
    /\ UNCHANGED not_server_vars

do_create_connect(t) ==
    /\ pc[t] = "create_connect"
    /\ CreateSend(t, Connect(port_local[t]), "create_send")

do_create_send(t) ==
    /\ pc[t] = "create_send"
    /\ CreateSend(t, VsockSend(port_local[t], ContainerCommandMsg("Create")), "create_recv")

\* The port stored with the new container: do_create rebinds port to the port
\* of the pair it receives from the data channel.
StoredPort(computed, received) == received

\* data_rx.recv().await.unwrap(): the next pair, or a panic once the channel is
\* empty and data_tx is gone (the write guard is dropped while unwinding).
do_create_recv(t) ==
    /\ pc[t] = "create_recv"
    /\ IF data_chan # << >>
       THEN /\ data_chan' = Tail(data_chan)
            /\ state_map' = MapInsert(state_map, req[t].id,
                   ContainerState(req[t].bundle, "Creating",
                                  StoredPort(port_local[t], Head(data_chan))))
            /\ allocated' = allocated \cup {StoredPort(port_local[t], Head(data_chan))}
            /\ Return(t, Ok)
       ELSE /\ vm_thread = "dead"
            /\ Return(t, Panicked)
            /\ UNCHANGED <<state_map, data_chan, allocated>>
    /\ lock_writer' = {}
    /\ port_local' = [port_local EXCEPT ![t] = 0]
    /\ UNCHANGED <<lock_readers, cmd_chan, vm_thread, connected, calls>>
    /\ UNCHANGED not_server_vars

\* ------------------------------------------- do_start, do_kill, do_delete
\* The match arms on state.status.
StartAcceptsCreating(s) == s \in {"Creating", "Created"}
StartAccepts(s) == s = "Created"
KillAccepts(s) == s \in {"Created", "Running"}
DeleteAccepts(s) == s \in {"Created", "Stopped"}
ConnectAccepts(s) == s = "Running"

\* One VsockSend under the write lock, then the status change.
SendAndSet(t, m, s) ==
    LET id == req[t].id IN
    /\ SendReady
    /\ IF SendFails
       THEN /\ Return(t, VmCommandFailed)
            /\ UNCHANGED <<state_map, cmd_chan>>
       ELSE /\ cmd_chan' = Append(cmd_chan, VsockSend(state_map[id].vsock_port, ContainerCommandMsg(m)))
            /\ state_map' = [state_map EXCEPT ![id].status = s]
            /\ Return(t, Ok)

do_start(t) ==
    /\ pc[t] = "called" /\ req[t].op = "start"
    /\ WriteLockFree
    /\ IF req[t].id \notin DOMAIN state_map
       THEN Return(t, ContainerNotFound) /\ UNCHANGED <<state_map, cmd_chan>>
       ELSE IF StartAccepts(state_map[req[t].id].status)
       THEN SendAndSet(t, "Start", "Running")
       ELSE /\ Return(t, UnpextectedContainerStatus(state_map[req[t].id].status))
            /\ UNCHANGED <<state_map, cmd_chan>>
    /\ UNCHANGED <<lock_writer, lock_readers, data_chan, vm_thread, connected,
                   port_local, allocated, calls>>
    /\ UNCHANGED not_server_vars

do_kill(t) ==
    /\ pc[t] = "called" /\ req[t].op = "kill"
    /\ WriteLockFree
    /\ IF req[t].id \notin DOMAIN state_map
       THEN Return(t, ContainerNotFound) /\ UNCHANGED <<state_map, cmd_chan>>
       ELSE IF KillAccepts(state_map[req[t].id].status)
       THEN SendAndSet(t, "Kill", "Stopped")
       ELSE /\ Return(t, UnpextectedContainerStatus(state_map[req[t].id].status))
            /\ UNCHANGED <<state_map, cmd_chan>>
    /\ UNCHANGED <<lock_writer, lock_readers, data_chan, vm_thread, connected,
                   port_local, allocated, calls>>
    /\ UNCHANGED not_server_vars

\* VsockSend(port, Delete), then Disconnect(port), then the removal; the two
\* sends are taken in one step, which needs room for both commands.
do_delete(t) ==
    LET id == req[t].id IN
    /\ pc[t] = "called" /\ req[t].op = "delete"
    /\ WriteLockFree
    /\ IF id \notin DOMAIN state_map
       THEN Return(t, ContainerNotFound) /\ UNCHANGED <<state_map, cmd_chan>>
       ELSE IF DeleteAccepts(state_map[id].status)
       THEN IF SendFails
            THEN Return(t, VmCommandFailed) /\ UNCHANGED <<state_map, cmd_chan>>
            ELSE /\ Len(cmd_chan) + 2 <= CmdChannelCapacity
                 /\ cmd_chan' = cmd_chan \o <<VsockSend(state_map[id].vsock_port, ContainerCommandMsg("Delete")),
                                              Disconnect(state_map[id].vsock_port)>>
                 /\ state_map' = MapRemove(state_map, id)
                 /\ Return(t, Ok)
       ELSE /\ Return(t, UnpextectedContainerStatus(state_map[id].status))
            /\ UNCHANGED <<state_map, cmd_chan>>
    /\ UNCHANGED <<lock_writer, lock_readers, data_chan, vm_thread, connected,
                   port_local, allocated, calls>>
    /\ UNCHANGED not_server_vars

\* The port argument is not used (_port): no command is sent.
do_connect(t) ==
    /\ pc[t] = "called" /\ req[t].op = "connect"
    /\ WriteLockFree
    /\ IF req[t].id \notin DOMAIN state_map
       THEN Return(t, ContainerNotFound)
       ELSE IF ConnectAccepts(state_map[req[t].id].status)
       THEN Return(t, Ok)
       ELSE Return(t, UnpextectedContainerStatus(state_map[req[t].id].status))
    /\ UNCHANGED <<state_map, cmd_chan, lock_writer, lock_readers, data_chan,
                   vm_thread, connected, port_local, allocated, calls>>
    /\ UNCHANGED not_server_vars

\* ------------------------------------------------------------- do_state
\* The read lock is held from the lookup to the return.
do_state_lock(t) ==
    /\ pc[t] = "called" /\ req[t].op = "state"
    /\ ReadLockFree
    /\ IF req[t].id \notin DOMAIN state_map
       THEN Return(t, ContainerNotFound) /\ UNCHANGED lock_readers
       ELSE /\ lock_readers' = lock_readers \cup {t}
            /\ pc' = [pc EXCEPT ![t] = "state_send"]
            /\ UNCHANGED <<last, req>>
    /\ UNCHANGED <<state_map, lock_writer, cmd_chan, data_chan, vm_thread,
                   connected, port_local, allocated, calls>>
    /\ UNCHANGED not_server_vars

do_state_send(t) ==
    /\ pc[t] = "state_send"
    /\ SendReady
    /\ IF SendFails
       THEN /\ Return(t, VmCommandFailed)
            /\ lock_readers' = lock_readers \ {t}
            /\ UNCHANGED cmd_chan
       ELSE /\ cmd_chan' = Append(cmd_chan,
                                  VsockSend(state_map[req[t].id].vsock_port,
                                            ContainerCommandMsg("State")))
            /\ pc' = [pc EXCEPT ![t] = "state_return"]
            /\ UNCHANGED <<last, req, lock_readers>>
    /\ UNCHANGED <<state_map, lock_writer, data_chan, vm_thread, connected,
                   port_local, allocated, calls>>
    /\ UNCHANGED not_server_vars

do_state_return(t) ==
    /\ pc[t] = "state_return"
    /\ Return(t, Response(req[t].id, state_map[req[t].id].status,
                          state_map[req[t].id].bundle))
    /\ lock_readers' = lock_readers \ {t}
    /\ UNCHANGED <<state_map, lock_writer, cmd_chan, data_chan, vm_thread,
                   connected, port_local, allocated, calls>>
    /\ UNCHANGED not_server_vars

\* ------------------------------------------------------- the VM thread
\* handle_cmd takes the next command and the Vm call it makes succeeds.
handle_cmd_ok ==
    /\ vm_thread = "running"
    /\ cmd_chan # << >>
    /\ cmd_chan' = Tail(cmd_chan)
    /\ connected' = CASE Head(cmd_chan).cmd = "Connect" ->
                           connected \cup {Head(cmd_chan).port}
                      [] Head(cmd_chan).cmd = "Disconnect" ->
                           connected \ {Head(cmd_chan).port}
                      [] OTHER -> connected
    /\ UNCHANGED <<state_map, lock_writer, lock_readers, data_chan, vm_thread,
                   pc, req, port_local, last, allocated, calls>>
    /\ UNCHANGED not_server_vars

\* The Vm call fails: handle_cmd returns the error, vm_thread panics, and
\* cmd_rx (with the commands still queued) and data_tx are dropped.
handle_cmd_err ==
    /\ vm_thread = "running"
    /\ cmd_chan # << >>
    /\ cmd_chan' = << >>
    /\ vm_thread' = "dead"
    /\ UNCHANGED <<state_map, lock_writer, lock_readers, data_chan, connected,
                   pc, req, port_local, last, allocated, calls>>
    /\ UNCHANGED not_server_vars

\* data_tx.send((port, data)): the only producer of the data channel; the
\* data of a port is what the guest wrote on that port's connection.
data_tx_send(p) ==
    /\ vm_thread = "running"
    /\ p \in connected
    /\ Len(data_chan) < MaxData
    /\ Len(data_chan) < DataChannelCapacity
    /\ data_chan' = Append(data_chan, p)
    /\ UNCHANGED <<state_map, lock_writer, lock_readers, cmd_chan, vm_thread,
                   connected, pc, req, port_local, last, allocated, calls>>
    /\ UNCHANGED not_server_vars

\* =================================================================
\* The VM daemon of src/bin/akari-vm.rs (ApiServer): one VM thread per
\* container.  Its handlers hold the std RwLock for their whole body and
\* do not await inside, so each is one action; create blocks on rx.recv()
\* with the write lock held and is two.
\* =================================================================
VmState(b, s, th, tx) == [bundle |-> b, status |-> s, thread |-> th, tx |-> tx]
ThreadNotFound == Result("ThreadNotFound")
Last(o, i, r) == [op |-> o, id |-> i, ret |-> r]

ApiInit ==
    /\ api_state_map = << >>
    /\ api_creating = "-"
    /\ api_thread = [i \in Ids |-> "none"]
    /\ api_cmds = [i \in Ids |-> << >>]
    /\ api_last = Last("-", "-", NoResult)
    /\ api_port = 0
    /\ api_calls = 0

ApiReceivePort(p) ==
    /\ api_creating = "-"
    /\ api_calls < MaxCalls
    /\ api_calls' = api_calls + 1
    /\ api_port' = p

ApiReceive == ApiReceivePort(0)

\* The match arms on state.status.
ApiStartAccepts(s) == s = "Created"
ApiKillAccepts(s) == s \in {"Created", "Running"}
ApiDeleteAcceptsRunning(s) == s \in {"Created", "Running", "Stopped"}
ApiDeleteAccepts(s) == s \in {"Created", "Stopped"}
ApiConnectAccepts(s) == s = "Running"

\* create, up to rx.recv(): the entry is inserted as Creating and the VM
\* thread is spawned.
Api_create_insert(i, b) ==
    /\ ApiReceive
    /\ IF i \in DOMAIN api_state_map
       THEN /\ api_last' = Last("create", i, ContainerAlreadyExists)
            /\ UNCHANGED <<api_state_map, api_creating, api_thread, api_cmds>>
       ELSE /\ api_state_map' = MapInsert(api_state_map, i, VmState(b, "Creating", FALSE, FALSE))
            /\ api_creating' = i
            /\ api_thread' = [api_thread EXCEPT ![i] = "running"]
            /\ api_cmds' = [api_cmds EXCEPT ![i] = << >>]
            /\ api_last' = Last("create", i, NoResult)
    /\ UNCHANGED not_api_vars

\* The thread built its Vm and sent Created: rx.recv() is Ok(status).
Api_create_recv_ok ==
    /\ api_creating # "-"
    /\ api_state_map' = [api_state_map EXCEPT ![api_creating] =
                            VmState(@.bundle, "Created", TRUE, TRUE)]
    /\ api_last' = Last("create", api_creating, Ok)
    /\ api_creating' = "-"
    /\ UNCHANGED <<api_thread, api_cmds, api_calls, api_port, not_api_vars>>

\* The thread returned an error before sending (tx is dropped): rx.recv() is
\* Err, the entry is left as inserted, and create still returns Ok(()).
Api_create_recv_err ==
    /\ api_creating # "-"
    /\ api_thread' = [api_thread EXCEPT ![api_creating] = "dead"]
    /\ api_last' = Last("create", api_creating, Ok)
    /\ api_creating' = "-"
    /\ UNCHANGED <<api_state_map, api_cmds, api_calls, api_port, not_api_vars>>

\* state.tx.as_ref().ok_or(ThreadNotFound)?.send(c).map_err(VmCommandFailed)?
\* and then the status change.
ApiSendAndSet(o, i, c, s) ==
    IF ~api_state_map[i].tx
    THEN /\ api_last' = Last(o, i, ThreadNotFound)
         /\ UNCHANGED <<api_state_map, api_cmds>>
    ELSE IF api_thread[i] # "running"
    THEN /\ api_last' = Last(o, i, VmCommandFailed)
         /\ UNCHANGED <<api_state_map, api_cmds>>
    ELSE /\ api_cmds' = [api_cmds EXCEPT ![i] = Append(@, c)]
         /\ api_state_map' = [api_state_map EXCEPT ![i].status = s]
         /\ api_last' = Last(o, i, Ok)

Api_start(i) ==
    /\ ApiReceive
    /\ IF i \notin DOMAIN api_state_map
       THEN api_last' = Last("start", i, ContainerNotFound)
            /\ UNCHANGED <<api_state_map, api_cmds>>
       ELSE IF ApiStartAccepts(api_state_map[i].status)
       THEN ApiSendAndSet("start", i, "Start", "Running")
       ELSE /\ api_last' = Last("start", i, UnpextectedContainerStatus(api_state_map[i].status))
            /\ UNCHANGED <<api_state_map, api_cmds>>
    /\ UNCHANGED <<api_creating, api_thread, not_api_vars>>

Api_kill(i) ==
    /\ ApiReceive
    /\ IF i \notin DOMAIN api_state_map
       THEN api_last' = Last("kill", i, ContainerNotFound)
            /\ UNCHANGED <<api_state_map, api_cmds>>
       ELSE IF ApiKillAccepts(api_state_map[i].status)
       THEN ApiSendAndSet("kill", i, "Kill", "Stopped")
       ELSE /\ api_last' = Last("kill", i, UnpextectedContainerStatus(api_state_map[i].status))
            /\ UNCHANGED <<api_state_map, api_cmds>>
    /\ UNCHANGED <<api_creating, api_thread, not_api_vars>>

\* Connect(port) is sent and the status stays as it is.
ApiConnectDefault(p) == Connect(DEFAULT_MIN_PORT)
ApiConnect(p) == Connect(p)

Api_connect(i, p) ==
    /\ ApiReceivePort(p)
    /\ IF i \notin DOMAIN api_state_map
       THEN api_last' = Last("connect", i, ContainerNotFound)
            /\ UNCHANGED <<api_state_map, api_cmds>>
       ELSE IF ApiConnectAccepts(api_state_map[i].status)
       THEN ApiSendAndSet("connect", i, ApiConnect(p), api_state_map[i].status)
       ELSE /\ api_last' = Last("connect", i, UnpextectedContainerStatus(api_state_map[i].status))
            /\ UNCHANGED <<api_state_map, api_cmds>>
    /\ UNCHANGED <<api_creating, api_thread, not_api_vars>>

\* The entry is removed; its VmState (thread handle and sender) is dropped,
\* so the thread's next cmd_rx.recv() fails and the thread ends.
Api_delete(i) ==
    /\ ApiReceive
    /\ IF i \notin DOMAIN api_state_map
       THEN /\ api_last' = Last("delete", i, ContainerNotFound)
            /\ UNCHANGED <<api_state_map, api_thread, api_cmds>>
       ELSE IF ApiDeleteAccepts(api_state_map[i].status)
       THEN /\ api_state_map' = MapRemove(api_state_map, i)
            /\ api_thread' = [api_thread EXCEPT ![i] = "none"]
            /\ api_cmds' = [api_cmds EXCEPT ![i] = << >>]
            /\ api_last' = Last("delete", i, Ok)
       ELSE /\ api_last' = Last("delete", i, UnpextectedContainerStatus(api_state_map[i].status))
            /\ UNCHANGED <<api_state_map, api_thread, api_cmds>>
    /\ UNCHANGED <<api_creating, not_api_vars>>

Api_state(i) ==
    /\ ApiReceive
    /\ api_last' = IF i \notin DOMAIN api_state_map
                   THEN Last("state", i, ContainerNotFound)
                   ELSE Last("state", i, Response(i, api_state_map[i].status,
                                                  api_state_map[i].bundle))
    /\ UNCHANGED <<api_state_map, api_creating, api_thread, api_cmds, not_api_vars>>

\* The VM thread's loop: the next command, and the Vm call succeeds ...
Api_thread_cmd_ok(i) ==
    /\ api_thread[i] = "running"
    /\ api_cmds[i] # << >>
    /\ api_cmds' = [api_cmds EXCEPT ![i] = Tail(@)]
    /\ UNCHANGED <<api_state_map, api_creating, api_thread, api_last, api_calls, api_port, not_api_vars>>

\* ... or fails, which ends the thread and drops cmd_rx.
Api_thread_cmd_err(i) ==
    /\ api_thread[i] = "running"
    /\ api_cmds[i] # << >>
    /\ api_thread' = [api_thread EXCEPT ![i] = "dead"]
    /\ api_cmds' = [api_cmds EXCEPT ![i] = << >>]
    /\ UNCHANGED <<api_state_map, api_creating, api_last, api_calls, api_port, not_api_vars>>

ApiNext ==
    \/ \E i \in Ids, b \in Bundles : Api_create_insert(i, b)
    \/ Api_create_recv_ok
    \/ Api_create_recv_err
    \/ \E i \in Ids : Api_start(i)
    \/ \E i \in Ids : Api_kill(i)
    \/ \E i \in Ids, p \in Ports : Api_connect(i, p)
    \/ \E i \in Ids : Api_delete(i)
    \/ \E i \in Ids : Api_state(i)
    \/ \E i \in Ids : Api_thread_cmd_ok(i)
    \/ \E i \in Ids : Api_thread_cmd_err(i)

\* =================================================================
\* The VM Engine's vsock side (crates/vmm/src/vm.rs, Vm): the calls that
\* handle_cmd makes on the Vm, and the callbacks of the VM's dispatch queue.
\* =================================================================
Chunks == {"c1", "c2"}

InvalidVsockPort == "InvalidVsockPort"
MpscRecv == "MpscRecv"
VmLast(o, p, r) == [op |-> o, port |-> p, ret |-> r]

\* Vm::new: vsock_queues is HashMap::new().
VmInit ==
    /\ vsock_queues = << >>
    /\ vm_conn = [p \in Ports |-> "none"]
    /\ vm_crashed = FALSE
    /\ vm_last = VmLast("-", 0, "-")
    /\ vm_sent = [p \in Ports |-> << >>]
    /\ vm_written = [p \in Ports |-> << >>]
    /\ vm_read = [p \in Ports |-> << >>]
    /\ vm_recvd = [p \in Ports |-> << >>]
    /\ vm_calls = 0

VmCall ==
    /\ ~vm_crashed
    /\ vm_calls < MaxCalls
    /\ vm_calls' = vm_calls + 1

\* Vm::connect: refuses a port that has a queue pair; otherwise the block
\* asks the socket device for a connection and connect returns Ok.  Nothing
\* is inserted into vsock_queues.
Vm_connect(p) ==
    /\ VmCall
    /\ IF p \in DOMAIN vsock_queues
       THEN /\ vm_last' = VmLast("connect", p, InvalidVsockPort)
            /\ UNCHANGED vm_conn
       ELSE /\ vm_conn' = [vm_conn EXCEPT ![p] = "requested"]
            /\ vm_last' = VmLast("connect", p, "Ok")
    /\ UNCHANGED <<vsock_queues, vm_crashed, vm_sent, vm_written, vm_read, vm_recvd>>
    /\ UNCHANGED not_vm_vars

\* The completion handler is called with a null connection: it sends the
\* error on err_tx and expects the send to succeed, which it does only while
\* connect has not yet dropped rx.
Vm_completion_null(p) ==
    /\ ~vm_crashed
    /\ vm_conn[p] = "requested"
    /\ vm_conn' = [vm_conn EXCEPT ![p] = "refused"]
    /\ vm_crashed' \in BOOLEAN
    /\ UNCHANGED <<vsock_queues, vm_last, vm_sent, vm_written, vm_read, vm_recvd, vm_calls>>
    /\ UNCHANGED not_vm_vars

\* The completion handler is called with a connection and runs
\* vsock_handler: one turn of its loop per step (the front of txq is written
\* to the stream, then one chunk is read into rxq); without a queue pair for
\* the port it returns InvalidVsockPort, the stream is dropped and the
\* result is sent on err_tx.
vsock_handler(p) ==
    /\ ~vm_crashed
    /\ vm_conn[p] \in {"requested", "open"}
    /\ IF p \in DOMAIN vsock_queues
       THEN \E g \in Chunks :
              LET q == vsock_queues[p] IN
              /\ Len(vm_read[p]) < MaxChunks
              /\ vm_written' = IF q.txq # << >>
                               THEN [vm_written EXCEPT ![p] = Append(@, Head(q.txq))]
                               ELSE vm_written
              /\ vsock_queues' = [vsock_queues EXCEPT ![p] =
                     [txq |-> IF q.txq # << >> THEN Tail(q.txq) ELSE q.txq,
                      rxq |-> Append(q.rxq, g)]]
              /\ vm_read' = [vm_read EXCEPT ![p] = Append(@, g)]
              /\ vm_conn' = [vm_conn EXCEPT ![p] = "open"]
              /\ UNCHANGED vm_crashed
       ELSE /\ vm_conn' = [vm_conn EXCEPT ![p] = "closed"]
            /\ vm_crashed' \in BOOLEAN
            /\ UNCHANGED <<vsock_queues, vm_written, vm_read>>
    /\ UNCHANGED <<vm_last, vm_sent, vm_recvd, vm_calls>>
    /\ UNCHANGED not_vm_vars

\* Vm::disconnect
Vm_disconnect(p) ==
    /\ VmCall
    /\ IF p \in DOMAIN vsock_queues
       THEN /\ vsock_queues' = MapRemove(vsock_queues, p)
            /\ vm_last' = VmLast("disconnect", p, "Ok")
       ELSE /\ vm_last' = VmLast("disconnect", p, InvalidVsockPort)
            /\ UNCHANGED vsock_queues
    /\ UNCHANGED <<vm_conn, vm_crashed, vm_sent, vm_written, vm_read, vm_recvd>>
    /\ UNCHANGED not_vm_vars

\* Vm::vsock_send
Vm_vsock_send(p, d) ==
    /\ VmCall
    /\ Len(vm_sent[p]) < MaxChunks
    /\ vm_sent' = [vm_sent EXCEPT ![p] = Append(@, d)]
    /\ IF p \in DOMAIN vsock_queues
       THEN /\ vsock_queues' = [vsock_queues EXCEPT ![p].txq = Append(@, d)]
            /\ vm_last' = VmLast("vsock_send", p, "Ok")
       ELSE /\ vm_last' = VmLast("vsock_send", p, InvalidVsockPort)
            /\ UNCHANGED vsock_queues
    /\ UNCHANGED <<vm_conn, vm_crashed, vm_written, vm_read, vm_recvd>>
    /\ UNCHANGED not_vm_vars

\* Vm::vsock_recv
Vm_vsock_recv(p) ==
    /\ VmCall
    /\ IF p \in DOMAIN vsock_queues
       THEN IF vsock_queues[p].rxq # << >>
            THEN /\ vm_recvd' = [vm_recvd EXCEPT ![p] = Append(@, Head(vsock_queues[p].rxq))]
                 /\ vsock_queues' = [vsock_queues EXCEPT ![p].rxq = Tail(@)]
                 /\ vm_last' = VmLast("vsock_recv", p, "Ok")
            ELSE /\ vm_last' = VmLast("vsock_recv", p, MpscRecv)
                 /\ UNCHANGED <<vsock_queues, vm_recvd>>
       ELSE /\ vm_last' = VmLast("vsock_recv", p, InvalidVsockPort)
            /\ UNCHANGED <<vsock_queues, vm_recvd>>
    /\ UNCHANGED <<vm_conn, vm_crashed, vm_sent, vm_written, vm_read>>
    /\ UNCHANGED not_vm_vars

VmNext ==
    \/ \E p \in Ports : Vm_connect(p)
    \/ \E p \in Ports : Vm_completion_null(p)
    \/ \E p \in Ports : vsock_handler(p)
    \/ \E p \in Ports : Vm_disconnect(p)
    \/ \E p \in Ports, d \in Chunks : Vm_vsock_send(p, d)
    \/ \E p \in Ports : Vm_vsock_recv(p)

\* =================================================================
\* Framing (src/traits.rs WriteTo::send / ReadFrom::recv, and the same
\* code in src/api.rs for Command, Request and Response): a message is its
\* JSON text followed by one NUL byte.  Bytes are modelled one by one where
\* the encoding depends on the data (string contents and their escapes) and
\* as one unit for each fixed run of JSON text.
\* =================================================================
\* The characters of a String: a plain one, the double quote, the backslash
\* and U+0000.
StrChars == {"x", QUOTE, BSLASH, NUL}
RECURSIVE StrsOfLen(_)
StrsOfLen(n) ==
    IF n = 0 THEN {<< >>}
    ELSE {Append(w, c) : w \in StrsOfLen(n - 1), c \in StrChars}
Strs == UNION {StrsOfLen(n) : n \in 0..MaxStrLen}

\* api::Command, api::Request (vm_config = None is skipped) and api::Response.
Commands == {"create", "delete", "kill", "start", "state"}
Command(c) == [type |-> "Command", command |-> c, container_id |-> << >>, status |-> "-"]
Request(i, c) == [type |-> "Request", command |-> c, container_id |-> i, status |-> "-"]
FrResponse(i, st) == [type |-> "Response", command |-> "-", container_id |-> i, status |-> st]
Messages ==
    {Command(c) : c \in Commands}
    \cup {Request(i, "create") : i \in Strs}
    \cup {FrResponse(i, "created") : i \in {w \in Strs : Len(w) <= 1}}
\* The messages whose send is cut short.
FailMessages ==
    {Command("state"), Request(<<BSLASH>>, "kill"), FrResponse(<<"x">>, "running")}

\* serde_json's string escapes.
EscapeRaw(ch) ==
    CASE ch = QUOTE -> <<BSLASH, QUOTE>>
      [] ch = BSLASH -> <<BSLASH, BSLASH>>
      [] OTHER -> <<ch>>
Escape(ch) ==
    CASE ch = QUOTE -> <<BSLASH, QUOTE>>
      [] ch = BSLASH -> <<BSLASH, BSLASH>>
      [] ch = NUL -> <<BSLASH, "u0000">>
      [] OTHER -> <<ch>>

RECURSIVE EscapeAll(_)
EscapeAll(str) == IF str = << >> THEN << >> ELSE Escape(Head(str)) \o EscapeAll(Tail(str))
EncodeStr(str) == <<QUOTE>> \o EscapeAll(str) \o <<QUOTE>>

\* serde_json::to_string
to_string(v) ==
    CASE v.type = "Command" -> <<QUOTE, v.command, QUOTE>>
      [] v.type = "Request" ->
           <<"{", "containerId:">> \o EncodeStr(v.container_id)
           \o <<",", "command:", QUOTE, v.command, QUOTE, "}">>
      [] v.type = "Response" ->
           <<"{", "containerId:">> \o EncodeStr(v.container_id)
           \o <<",", "status:", QUOTE, v.status, QUOTE, ",", "pid:null",
                ",", "config:{}", "}">>

FrOk(v) == [ok |-> TRUE, value |-> v]
FrErr(e) == [ok |-> FALSE, value |-> e]

\* The JSON string parser, after the opening quote: the string and the bytes
\* after its closing quote, or a failure.
RECURSIVE ParseStr(_, _)
ParseStr(b, acc) ==
    IF b = << >> THEN [ok |-> FALSE, str |-> << >>, rest |-> << >>]
    ELSE IF Head(b) = QUOTE THEN [ok |-> TRUE, str |-> acc, rest |-> Tail(b)]
    ELSE IF Head(b) = BSLASH
         THEN IF Len(b) < 2 THEN [ok |-> FALSE, str |-> << >>, rest |-> << >>]
              ELSE IF b[2] \in {QUOTE, BSLASH}
                   THEN ParseStr(Tail(Tail(b)), Append(acc, b[2]))
              ELSE IF b[2] = "u0000"
                   THEN ParseStr(Tail(Tail(b)), Append(acc, NUL))
              ELSE [ok |-> FALSE, str |-> << >>, rest |-> << >>]
    ELSE IF Head(b) \in StrChars \ {NUL}
         THEN ParseStr(Tail(b), Append(acc, Head(b)))
    ELSE [ok |-> FALSE, str |-> << >>, rest |-> << >>]

\* serde_json::from_slice::<T>
from_slice(t, b) ==
    IF t = "Command"
    THEN IF Len(b) = 3 /\ b[1] = QUOTE /\ b[2] \in Commands /\ b[3] = QUOTE
         THEN FrOk(Command(b[2])) ELSE FrErr("json")
    ELSE IF Len(b) < 3 \/ SubSeq(b, 1, 3) # <<"{", "containerId:", QUOTE>>
         THEN FrErr("json")
    ELSE LET s == ParseStr(SubSeq(b, 4, Len(b)), << >>) IN
         IF ~s.ok THEN FrErr("json")
         ELSE IF t = "Request"
              THEN IF /\ Len(s.rest) = 6
                      /\ s.rest[4] \in Commands
                      /\ s.rest = <<",", "command:", QUOTE, s.rest[4], QUOTE, "}">>
                   THEN FrOk(Request(s.str, s.rest[4])) ELSE FrErr("json")
              ELSE IF /\ Len(s.rest) = 10
                      /\ s.rest[4] \in {"creating", "created", "running", "stopped"}
                      /\ s.rest = <<",", "status:", QUOTE, s.rest[4], QUOTE, ",",
                                    "pid:null", ",", "config:{}", "}">>
                   THEN FrOk(FrResponse(s.str, s.rest[4])) ELSE FrErr("json")

FrameInit ==
    /\ fr_type = "-"
    /\ fr_stream = << >>
    /\ fr_closed = FALSE
    /\ fr_writing = << >>
    /\ fr_pc = "idle"
    /\ fr_buf = << >>
    /\ fr_sent = << >>
    /\ fr_recvd = << >>

\* send, first write_all: the JSON text.
send_json(v) ==
    /\ ~fr_closed
    /\ fr_writing = << >>
    /\ fr_type \in {"-", v.type}
    /\ Len(fr_sent) < MaxFrames
    /\ fr_type' = v.type
    /\ fr_stream' = fr_stream \o to_string(v)
    /\ fr_writing' = <<v>>
    /\ UNCHANGED <<fr_closed, fr_pc, fr_buf, fr_sent, fr_recvd>>
    /\ UNCHANGED not_fr_vars

\* send, second write_all: the NUL; then flush and Ok(()).
send_nul ==
    /\ ~fr_closed
    /\ fr_writing # << >>
    /\ fr_stream' = Append(fr_stream, NUL)
    /\ fr_sent' = Append(fr_sent, fr_writing[1])
    /\ fr_writing' = << >>
    /\ UNCHANGED <<fr_type, fr_closed, fr_pc, fr_buf, fr_recvd>>
    /\ UNCHANGED not_fr_vars

\* A send that fails part-way (the first write_all returns an error after k
\* bytes of the JSON text, or the second one fails) and the end of the
\* writer: the stream ends there.
send_fails(v, k) ==
    /\ ~fr_closed
    /\ fr_writing = << >>
    /\ fr_type \in {"-", v.type}
    /\ fr_type' = v.type
    /\ fr_stream' = fr_stream \o SubSeq(to_string(v), 1, k)
    /\ fr_closed' = TRUE
    /\ UNCHANGED <<fr_writing, fr_pc, fr_buf, fr_sent, fr_recvd>>
    /\ UNCHANGED not_fr_vars

\* Where a failing send stops: before the first byte, inside the text, or
\* after the whole text and before the NUL.
FailCuts(v) == {0, Len(to_string(v)) - 1, Len(to_string(v))}

\* recv is called: buf = Vec::new().
recv_call ==
    /\ fr_pc = "idle"
    /\ Len(fr_recvd) <= MaxFrames
    /\ fr_pc' = "reading"
    /\ fr_buf' = << >>
    /\ UNCHANGED <<fr_type, fr_stream, fr_closed, fr_writing, fr_sent, fr_recvd>>
    /\ UNCHANGED not_fr_vars

\* The byte that ends a frame, and the place of the first one in b.
FrameEnd(b) == b = NUL
HasFrameEnd(b) == \E n \in 1..Len(b) : FrameEnd(b[n])
FirstFrameEnd(b) ==
    CHOOSE n \in 1..Len(b) : FrameEnd(b[n]) /\ \A m \in 1..(n - 1) : ~FrameEnd(b[m])

\* What recv leaves in the stream: the bytes after the first NUL.
AfterFrameNothing(b) == << >>
AfterFrame(b) == SubSeq(b, FirstFrameEnd(b) + 1, Len(b))

\* read_exact at the end of the stream.
EofResultDecode(t, buf) == from_slice(t, buf)
EofResult(t, buf) == FrErr("eof")

\* recv on the bytes b of a stream that ends after them.
recv(t, b) ==
    IF HasFrameEnd(b)
    THEN from_slice(t, SubSeq(b, 1, FirstFrameEnd(b) - 1))
    ELSE EofResult(t, b)

\* recv's loop, as far as the stream lets it run: up to and including the
\* first NUL, after which buf is parsed; or to the end of a closed stream,
\* where read_exact fails; or over the bytes there are, after which
\* read_exact waits for more.
recv_read ==
    /\ fr_pc = "reading"
    /\ IF HasFrameEnd(fr_stream) \/ fr_closed
       THEN /\ fr_recvd' = Append(fr_recvd, recv(fr_type, fr_buf \o fr_stream))
            /\ fr_stream' = IF HasFrameEnd(fr_stream)
                            THEN AfterFrame(fr_stream)
                            ELSE << >>
            /\ fr_pc' = "idle"
            /\ fr_buf' = << >>
       ELSE /\ fr_stream # << >>
            /\ fr_buf' = fr_buf \o fr_stream
            /\ fr_stream' = << >>
            /\ UNCHANGED <<fr_pc, fr_recvd>>
    /\ UNCHANGED <<fr_type, fr_closed, fr_writing, fr_sent>>
    /\ UNCHANGED not_fr_vars

FrameNext ==
    \/ \E v \in Messages : send_json(v)
    \/ send_nul
    \/ \E v \in FailMessages : \E k \in FailCuts(v) : send_fails(v, k)
    \/ recv_call
    \/ recv_read

\* =================================================================
\* The VM thread of crates/server (main, vm_thread, handle_cmd) on top of
\* the Vm of crates/vmm: one loop that takes a command from the channel,
\* makes the Vm call and goes on only when the call has returned Ok.
\* =================================================================
EngineInit ==
    /\ eng_main = "init"
    /\ eng_chan = << >>
    /\ eng_thread = "running"
    /\ eng_cur = << >>
    /\ eng_q = "none"
    /\ eng_reply = << >>
    /\ eng_handlers = {}
    /\ eng_vm = "Stopped"
    /\ eng_sent = << >>
    /\ eng_done = << >>

\* The commands the handlers of ContainerService send.
HandlerCommands ==
    {Connect(p) : p \in Ports}
    \cup {VsockSend(p, ContainerCommandMsg("State")) : p \in Ports}
    \cup {Disconnect(p) : p \in Ports}

\* main: cmd_tx.send(VmCommand::Start) before the ttrpc server is started.
main_send_start ==
    /\ eng_main = "init"
    /\ eng_main' = "serving"
    /\ eng_chan' = Append(eng_chan, VmStart)
    /\ eng_sent' = Append(eng_sent, VmStart)
    /\ UNCHANGED <<eng_thread, eng_cur, eng_q, eng_reply, eng_handlers, eng_vm, eng_done>>
    /\ UNCHANGED <<vsock_queues, not_eng_vars>>

\* Handlers run once main has started the server.
ServingAlways == TRUE
Serving == eng_main = "serving"

\* A handler's cmd_tx.send(c).await; it fails once cmd_rx is dropped.
cmd_tx_send(c) ==
    /\ Serving
    /\ eng_thread = "running"
    /\ Len(eng_sent) < MaxCmds + 1
    /\ Len(eng_chan) < CmdChannelCapacity
    /\ eng_chan' = Append(eng_chan, c)
    /\ eng_sent' = Append(eng_sent, c)
    /\ UNCHANGED <<eng_main, eng_thread, eng_cur, eng_q, eng_reply, eng_handlers,
                   eng_vm, eng_done>>
    /\ UNCHANGED <<vsock_queues, not_eng_vars>>

\* handle_cmd is at cmd_rx.recv(): the Vm call of the previous command has
\* returned.
CallReturnedAlways == TRUE
CallReturned == eng_cur = << >>

\* Vm::start and Vm::connect (for a port without a queue pair) put a block
\* on the serial queue and wait on rx.recv().
UsesQueue(c) ==
    \/ c.cmd = "Start"
    \/ c.cmd = "Connect" /\ c.port \notin DOMAIN vsock_queues

\* handle_cmd: cmd_rx.recv() and the match on the command, up to the point
\* where the Vm call waits or computes its result.
handle_cmd_recv ==
    /\ eng_thread = "running"
    /\ CallReturned
    /\ eng_chan # << >>
    /\ eng_cur' = <<Head(eng_chan)>>
    /\ eng_chan' = Tail(eng_chan)
    /\ eng_q' = IF UsesQueue(Head(eng_chan)) THEN "block" ELSE eng_q
    /\ UNCHANGED <<eng_main, eng_thread, eng_reply, eng_handlers, eng_vm, eng_sent,
                   eng_done>>
    /\ UNCHANGED <<vsock_queues, not_eng_vars>>

\* The serial queue runs the block: start asks the VM to start; connect asks
\* the socket device for a connection and sends Ok(()) on the reply channel.
queue_runs_block ==
    /\ eng_thread # "aborted"
    /\ eng_q = "block"
    /\ IF eng_cur[1].cmd = "Start"
       THEN /\ eng_q' = "hv"
            /\ UNCHANGED <<eng_reply, eng_handlers>>
       ELSE /\ eng_q' = "none"
            /\ eng_reply' = Append(eng_reply, "Ok")
            /\ eng_handlers' = eng_handlers \cup {[port |-> eng_cur[1].port, live |-> TRUE]}
    /\ UNCHANGED <<eng_main, eng_chan, eng_thread, eng_cur, eng_vm, eng_sent, eng_done>>
    /\ UNCHANGED <<vsock_queues, not_eng_vars>>

\* The completion handler of startWithCompletionHandler.
start_completion(started) ==
    /\ eng_thread # "aborted"
    /\ eng_q = "hv"
    /\ eng_q' = "none"
    /\ eng_reply' = Append(eng_reply, IF started THEN "Ok" ELSE "FailedToStartVm")
    /\ eng_vm' = IF started THEN "Running" ELSE "Error"
    /\ UNCHANGED <<eng_main, eng_chan, eng_thread, eng_cur, eng_handlers, eng_sent,
                   eng_done>>
    /\ UNCHANGED <<vsock_queues, not_eng_vars>>

Handlers == [port : Ports, live : BOOLEAN]

\* The completion handler of a connection sends its result on err_tx: onto
\* the reply channel while connect still waits, and otherwise the send fails
\* and expect panics inside the callback.
connect_completion(h) ==
    /\ eng_thread # "aborted"
    /\ h \in eng_handlers
    /\ eng_handlers' = eng_handlers \ {h}
    /\ IF h.live
       THEN /\ eng_reply' = Append(eng_reply, IF h.port \in DOMAIN vsock_queues
                                              THEN "Io" ELSE InvalidVsockPort)
            /\ UNCHANGED eng_thread
       ELSE /\ eng_thread' \in {eng_thread, "aborted"}
            /\ UNCHANGED eng_reply
    /\ UNCHANGED <<eng_main, eng_chan, eng_cur, eng_q, eng_vm, eng_sent, eng_done>>
    /\ UNCHANGED <<vsock_queues, not_eng_vars>>

\* The result of the Vm call of command c, once it can return.
CallResult(c) ==
    CASE c.cmd \in {"Start", "Connect"} /\ UsesQueue(c) -> Head(eng_reply)
      [] c.cmd = "Connect" /\ ~UsesQueue(c) -> InvalidVsockPort
      [] OTHER -> IF c.port \in DOMAIN vsock_queues THEN "Ok" ELSE InvalidVsockPort

\* The Vm call returns.  Ok: handle_cmd loops.  Err: `?` ends handle_cmd,
\* vm_thread panics on the error, and cmd_rx is dropped with what it holds.
handle_cmd_return ==
    /\ eng_thread = "running"
    /\ eng_cur # << >>
    /\ eng_q = "none"
    /\ LET c == eng_cur[1] IN
       /\ (UsesQueue(c) => eng_reply # << >>)
       /\ eng_reply' = << >>
       /\ eng_cur' = << >>
       /\ eng_handlers' = {[h EXCEPT !.live = FALSE] : h \in eng_handlers}
       /\ vsock_queues' =
            IF c.port \in DOMAIN vsock_queues
            THEN CASE c.cmd = "Disconnect" -> MapRemove(vsock_queues, c.port)
                   [] c.cmd = "VsockSend" ->
                        [vsock_queues EXCEPT ![c.port].txq = Append(@, c.msg)]
                   [] OTHER -> vsock_queues
            ELSE vsock_queues
       /\ IF CallResult(c) = "Ok"
          THEN /\ eng_done' = Append(eng_done, c)
               /\ UNCHANGED <<eng_thread, eng_chan>>
          ELSE /\ eng_thread' = "panicked"
               /\ eng_chan' = << >>
               /\ UNCHANGED eng_done
    /\ UNCHANGED <<eng_main, eng_q, eng_vm, eng_sent>>
    /\ UNCHANGED not_eng_vars

EngineNext ==
    \/ main_send_start
    \/ \E c \in HandlerCommands : cmd_tx_send(c)
    \/ handle_cmd_recv
    \/ queue_runs_block
    \/ \E started \in BOOLEAN : start_completion(started)
    \/ \E h \in Handlers : connect_completion(h)
    \/ handle_cmd_return

\* =================================================================
\* The containerd shim of crates/shim (Task): one VM thread per container,
\* as in the VM daemon, behind a std RwLock that is poisoned when a writer
\* panics.  Each handler holds the lock for its whole body and does not
\* await inside, so each is one action; create blocks on rx.recv() with the
\* write lock held and is two.
\* =================================================================
TaskOther(m) == [kind |-> "Other", status |-> "-", id |-> "-", bundle |-> m]
LockPoisoned == TaskOther("Lock poisoned")
TaskAlreadyExists == TaskOther("Container already exists")
TaskNotFound == TaskOther("Container not found")
TaskUnexpectedStatus == TaskOther("Unexpected container status")
TaskThreadNotFound == TaskOther("Thread not found")
TaskConfigError == TaskOther("do_create")

\* to_status: every status but Created, Running and Stopped is UNKNOWN.
to_status(s) ==
    CASE s = "Created" -> "CREATED"
      [] s = "Running" -> "RUNNING"
      [] s = "Stopped" -> "STOPPED"
      [] OTHER -> "UNKNOWN"

ShimInit ==
    /\ sh_state_map = << >>
    /\ sh_creating = "-"
    /\ sh_thread = [i \in Ids |-> "none"]
    /\ sh_cmds = [i \in Ids |-> << >>]
    /\ sh_last = Last("-", "-", NoResult)
    /\ sh_poisoned = FALSE
    /\ sh_calls = 0

\* A request arrives; its handler runs once no create holds the lock.
TaskReceive ==
    /\ sh_creating = "-"
    /\ sh_calls < MaxCalls
    /\ sh_calls' = sh_calls + 1

\* The match arms on state.status.
TaskStartAccepts(s) == s = "Created"
TaskKillAccepts(s) == s = "Running"
TaskDeleteAccepts(s) == s \in {"Created", "Stopped"}

\* connect answers Ok(ConnectResponse::new()) without looking at anything.
Task_connect(i) ==
    /\ sh_calls < MaxCalls
    /\ sh_calls' = sh_calls + 1
    /\ sh_last' = Last("connect", i, Ok)
    /\ UNCHANGED <<sh_state_map, sh_creating, sh_thread, sh_cmds, sh_poisoned, not_sh_vars>>

\* create: do_create fails (vm.json.base or config.json cannot be read)
\* before the lock is taken.
Task_create_config_err(i) ==
    /\ sh_calls < MaxCalls
    /\ sh_calls' = sh_calls + 1
    /\ sh_last' = Last("create", i, TaskConfigError)
    /\ UNCHANGED <<sh_state_map, sh_creating, sh_thread, sh_cmds, sh_poisoned, not_sh_vars>>

\* create, up to rx.recv(): the entry is inserted as Creating with no thread
\* and no sender, and the VM thread is spawned.
Task_create_insert(i, b) ==
    /\ TaskReceive
    /\ IF sh_poisoned
       THEN /\ sh_last' = Last("create", i, LockPoisoned)
            /\ UNCHANGED <<sh_state_map, sh_creating, sh_thread, sh_cmds>>
       ELSE IF i \in DOMAIN sh_state_map
       THEN /\ sh_last' = Last("create", i, TaskAlreadyExists)
            /\ UNCHANGED <<sh_state_map, sh_creating, sh_thread, sh_cmds>>
       ELSE /\ sh_state_map' = MapInsert(sh_state_map, i, VmState(b, "Creating", FALSE, FALSE))
            /\ sh_creating' = i
            /\ sh_thread' = [sh_thread EXCEPT ![i] = "running"]
            /\ sh_cmds' = [sh_cmds EXCEPT ![i] = << >>]
            /\ sh_last' = Last("create", i, NoResult)
    /\ UNCHANGED <<sh_poisoned, not_sh_vars>>

\* The thread built its Vm and sent Created: rx.recv() is Ok(status).
Task_create_recv_ok ==
    /\ sh_creating # "-"
    /\ sh_state_map' = [sh_state_map EXCEPT ![sh_creating] =
                           VmState(@.bundle, "Created", TRUE, TRUE)]
    /\ sh_last' = Last("create", sh_creating, Ok)
    /\ sh_creating' = "-"
    /\ UNCHANGED <<sh_thread, sh_cmds, sh_poisoned, sh_calls, not_sh_vars>>

\* The thread returned an error before sending (tx is dropped): rx.recv() is
\* Err, the entry is left as inserted, and create still returns Ok(resp).
Task_create_recv_err ==
    /\ sh_creating # "-"
    /\ sh_thread' = [sh_thread EXCEPT ![sh_creating] = "dead"]
    /\ sh_last' = Last("create", sh_creating, Ok)
    /\ sh_creating' = "-"
    /\ UNCHANGED <<sh_state_map, sh_cmds, sh_poisoned, sh_calls, not_sh_vars>>

\* state.tx.as_ref().ok_or("Thread not found")?.send(c).unwrap() and then the
\* status change: a send to a thread that has ended panics with the write
\* guard held, which poisons the lock.
TaskSendAndSet(o, i, c, s) ==
    IF ~sh_state_map[i].tx
    THEN /\ sh_last' = Last(o, i, TaskThreadNotFound)
         /\ UNCHANGED <<sh_state_map, sh_cmds, sh_poisoned>>
    ELSE IF sh_thread[i] # "running"
    THEN /\ sh_last' = Last(o, i, Panicked)
         /\ sh_poisoned' = TRUE
         /\ UNCHANGED <<sh_state_map, sh_cmds>>
    ELSE /\ sh_cmds' = [sh_cmds EXCEPT ![i] = Append(@, c)]
         /\ sh_state_map' = [sh_state_map EXCEPT ![i].status = s]
         /\ sh_last' = Last(o, i, Ok)
         /\ UNCHANGED sh_poisoned

\* start ends with state.thread.as_ref().unwrap(); the thread handle is there
\* whenever the sender is.
Task_start(i) ==
    /\ TaskReceive
    /\ IF sh_poisoned
       THEN /\ sh_last' = Last("start", i, LockPoisoned)
            /\ UNCHANGED <<sh_state_map, sh_cmds, sh_poisoned>>
       ELSE IF i \notin DOMAIN sh_state_map
       THEN /\ sh_last' = Last("start", i, TaskNotFound)
            /\ UNCHANGED <<sh_state_map, sh_cmds, sh_poisoned>>
       ELSE IF TaskStartAccepts(sh_state_map[i].status)
       THEN TaskSendAndSet("start", i, "Start", "Running")
       ELSE /\ sh_last' = Last("start", i, TaskUnexpectedStatus)
            /\ UNCHANGED <<sh_state_map, sh_cmds, sh_poisoned>>
    /\ UNCHANGED <<sh_creating, sh_thread, not_sh_vars>>

Task_kill(i) ==
    /\ TaskReceive
    /\ IF sh_poisoned
       THEN /\ sh_last' = Last("kill", i, LockPoisoned)
            /\ UNCHANGED <<sh_state_map, sh_cmds, sh_poisoned>>
       ELSE IF i \notin DOMAIN sh_state_map
       THEN /\ sh_last' = Last("kill", i, TaskNotFound)
            /\ UNCHANGED <<sh_state_map, sh_cmds, sh_poisoned>>
       ELSE IF TaskKillAccepts(sh_state_map[i].status)
       THEN TaskSendAndSet("kill", i, "Kill", "Stopped")
       ELSE /\ sh_last' = Last("kill", i, TaskUnexpectedStatus)
            /\ UNCHANGED <<sh_state_map, sh_cmds, sh_poisoned>>
    /\ UNCHANGED <<sh_creating, sh_thread, not_sh_vars>>

\* delete: state.thread.as_ref().unwrap() for the response's pid, then the
\* entry is removed; its VmState (thread handle and sender) is dropped, so
\* the thread's next cmd_rx.recv() fails and the thread ends.
Task_delete(i) ==
    /\ TaskReceive
    /\ IF sh_poisoned
       THEN /\ sh_last' = Last("delete", i, LockPoisoned)
            /\ UNCHANGED <<sh_state_map, sh_thread, sh_cmds, sh_poisoned>>
       ELSE IF i \notin DOMAIN sh_state_map
       THEN /\ sh_last' = Last("delete", i, TaskNotFound)
            /\ UNCHANGED <<sh_state_map, sh_thread, sh_cmds, sh_poisoned>>
       ELSE IF ~TaskDeleteAccepts(sh_state_map[i].status)
       THEN /\ sh_last' = Last("delete", i, TaskUnexpectedStatus)
            /\ UNCHANGED <<sh_state_map, sh_thread, sh_cmds, sh_poisoned>>
       ELSE IF ~sh_state_map[i].thread
       THEN /\ sh_last' = Last("delete", i, Panicked)
            /\ sh_poisoned' = TRUE
            /\ UNCHANGED <<sh_state_map, sh_thread, sh_cmds>>
       ELSE /\ sh_state_map' = MapRemove(sh_state_map, i)
            /\ sh_thread' = [sh_thread EXCEPT ![i] = "none"]
            /\ sh_cmds' = [sh_cmds EXCEPT ![i] = << >>]
            /\ sh_last' = Last("delete", i, Ok)
            /\ UNCHANGED sh_poisoned
    /\ UNCHANGED <<sh_creating, not_sh_vars>>

\* state: state.thread.as_ref().unwrap() for the response's pid, under the
\* read lock (a panicking reader does not poison the lock).
Task_state(i) ==
    /\ TaskReceive
    /\ sh_last' = IF sh_poisoned THEN Last("state", i, LockPoisoned)
                  ELSE IF i \notin DOMAIN sh_state_map THEN Last("state", i, TaskNotFound)
                  ELSE IF ~sh_state_map[i].thread THEN Last("state", i, Panicked)
                  ELSE Last("state", i, Response(i, to_status(sh_state_map[i].status),
                                                 sh_state_map[i].bundle))
    /\ UNCHANGED <<sh_state_map, sh_creating, sh_thread, sh_cmds, sh_poisoned, not_sh_vars>>

\* The VM thread's loop: the next command, and the Vm call succeeds ...
Task_thread_cmd_ok(i) ==
    /\ sh_thread[i] = "running"
    /\ sh_cmds[i] # << >>
    /\ sh_cmds' = [sh_cmds EXCEPT ![i] = Tail(@)]
    /\ UNCHANGED <<sh_state_map, sh_creating, sh_thread, sh_last, sh_poisoned, sh_calls, not_sh_vars>>

\* ... or fails, which ends the thread and drops cmd_rx.
Task_thread_cmd_err(i) ==
    /\ sh_thread[i] = "running"
    /\ sh_cmds[i] # << >>
    /\ sh_thread' = [sh_thread EXCEPT ![i] = "dead"]
    /\ sh_cmds' = [sh_cmds EXCEPT ![i] = << >>]
    /\ UNCHANGED <<sh_state_map, sh_creating, sh_last, sh_poisoned, sh_calls, not_sh_vars>>

ShimNext ==
    \/ \E i \in Ids : Task_connect(i)
    \/ \E i \in Ids : Task_create_config_err(i)
    \/ \E i \in Ids, b \in Bundles : Task_create_insert(i, b)
    \/ Task_create_recv_ok
    \/ Task_create_recv_err
    \/ \E i \in Ids : Task_start(i)
    \/ \E i \in Ids : Task_kill(i)
    \/ \E i \in Ids : Task_delete(i)
    \/ \E i \in Ids : Task_state(i)
    \/ \E i \in Ids : Task_thread_cmd_ok(i)
    \/ \E i \in Ids : Task_thread_cmd_err(i)

\* ------------------------------------------------------------- Next
Next ==
    \/ \E t \in Tasks, i \in Ids : \E b \in Bundles : Call(t, "create", i, b, 0)
    \/ \E t \in Tasks, i \in Ids : \E o \in {"start", "kill", "delete", "state"} :
           Call(t, o, i, "-", 0)
    \/ \E t \in Tasks, i \in Ids : \E p \in Ports : Call(t, "connect", i, "-", p)
    \/ \E t \in Tasks : do_create_lock(t)
    \/ \E t \in Tasks : do_create_load_panic(t)
    \/ \E t \in Tasks : do_create_connect(t)
    \/ \E t \in Tasks : do_create_send(t)
    \/ \E t \in Tasks : do_create_recv(t)
    \/ \E t \in Tasks : do_start(t)
    \/ \E t \in Tasks : do_kill(t)
    \/ \E t \in Tasks : do_delete(t)
    \/ \E t \in Tasks : do_connect(t)
    \/ \E t \in Tasks : do_state_lock(t)
    \/ \E t \in Tasks : do_state_send(t)
    \/ \E t \in Tasks : do_state_return(t)
    \/ handle_cmd_ok
    \/ handle_cmd_err
    \/ \E p \in Ports : data_tx_send(p)

Init == ServerInit /\ ApiInit /\ VmInit /\ FrameInit /\ EngineInit /\ ShimInit

\* The Control Server of crates/server.
Spec == Init /\ [][Next]_vars

\* The VM daemon of src/bin/akari-vm.rs.
SpecApi == Init /\ [][ApiNext]_vars

\* The VM Engine's vsock side of crates/vmm.
SpecVm == Init /\ [][VmNext]_vars

\* The same, with the dispatch queue running every completion handler it
\* has been given.
SpecVmLive ==
    /\ Init
    /\ [][VmNext]_vars
    /\ \A p \in Ports : WF_vars(vsock_handler(p))

\* The NUL-delimited JSON framing of src/traits.rs and src/api.rs.
SpecFrame == Init /\ [][FrameNext]_vars

\* The VM thread of crates/server.
SpecEngine == Init /\ [][EngineNext]_vars

\* The containerd shim of crates/shim.
SpecShim == Init /\ [][ShimNext]_vars

\* =================================================================
\* Properties of the Control Server (checked under Spec)
\* =================================================================

\* The step in which task t's start, kill, delete or connect handler runs.
HandlerStep(t) ==
    /\ pc[t] = "called" /\ pc'[t] = "idle"
    /\ req[t].op \in {"start", "kill", "delete", "connect"}

\* The step in which task t returns r.
Returns(t, r) == pc[t] # "idle" /\ pc'[t] = "idle" /\ last'.task = t /\ last'.ret = r

\* The step in which task t's create returns success.
CreateOkStep(t) == pc[t] = "create_recv" /\ Returns(t, Ok)

\* The statuses in which each operation is legal (section 4.3's table).
PreconditionSet(o) ==
    CASE o = "start" -> {"Created"}
      [] o = "kill" -> {"Created", "Running"}
      [] o = "delete" -> {"Created", "Stopped"}
      [] o = "connect" -> {"Running"}

\* A container that create has made and no start or kill has touched since.
JustCreated(i) ==
    i \in DOMAIN state_map /\ state_map[i].status \in {"Creating", "Created"}

\* C1: start, kill, delete or connect on an existing container whose status
\* is outside the operation's precondition set returns
\* UnexpectedContainerStatus with the current status, leaves the state map
\* as it was and enqueues no command.
C1_IllegalTransitionRejected ==
    [][\A t \in Tasks :
        (/\ HandlerStep(t)
         /\ req[t].id \in DOMAIN state_map
         /\ state_map[req[t].id].status \notin PreconditionSet(req[t].op))
        => (/\ Returns(t, UnpextectedContainerStatus(state_map[req[t].id].status))
            /\ state_map' = state_map
            /\ cmd_chan' = cmd_chan)]_vars

C1_Witness ==
    /\ last.op \in {"start", "kill", "delete", "connect"}
    /\ last.id \in DOMAIN state_map
    /\ last.ret = UnpextectedContainerStatus(state_map[last.id].status)

StatusIn(m, i) == IF i \in DOMAIN m THEN m[i].status ELSE "absent"
LegalChanges ==
    {<<"create", "absent", "Creating">>, <<"create", "Creating", "Created">>,
     <<"start", "Created", "Running">>,
     <<"kill", "Created", "Stopped">>, <<"kill", "Running", "Stopped">>,
     <<"delete", "Created", "absent">>, <<"delete", "Stopped", "absent">>}
C3_OnlyLegalChanges ==
    [][\A i \in Ids :
        StatusIn(api_state_map, i) # StatusIn(api_state_map', i)
        => (/\ api_last'.id = i
            /\ <<api_last'.op, StatusIn(api_state_map, i), StatusIn(api_state_map', i)>>
                 \in LegalChanges)]_vars

C3_Witness ==
    \E i \in DOMAIN api_state_map :
        /\ api_state_map[i].status = "Stopped"
        /\ api_cmds[i] = <<"Start", "Kill">>
        /\ api_last = Last("kill", i, Ok)

\* The same statement for the ContainerService state map, under Spec.
C3_ServerOnlyLegalChanges ==
    [][\A i \in Ids :
        StatusIn(state_map, i) # StatusIn(state_map', i)
        => \E t \in Tasks :
             /\ req[t].id = i /\ pc[t] # "idle" /\ pc'[t] = "idle"
             /\ <<req[t].op, StatusIn(state_map, i), StatusIn(state_map', i)>>
                  \in LegalChanges]_vars

CreatePcs == {"create_connect", "create_send", "create_recv"}
InFlight(t) == pc[t] \in {"create_recv", "state_return"}
C11_CreateFailureRemovesEntry ==
    [][(/\ api_creating # "-" /\ api_creating' = "-"
        /\ StatusIn(api_state_map', api_creating) # "Created")
       => (/\ api_creating \notin DOMAIN api_state_map'
           /\ api_last'.ret # Ok)]_vars

C20_EngineFailureIsVmCommandFailed ==
    [][\A t \in Tasks :
        (pc[t] = "create_recv" /\ vm_thread = "dead" /\ pc'[t] = "idle")
        => (Returns(t, VmCommandFailed) /\ state_map' = state_map)]_vars

\* =================================================================
\* Properties of the VM Engine's vsock side (checked under SpecVm)
\* =================================================================

\* The queues of a port, empty when the port has no queue pair.
TxQ(p) == IF p \in DOMAIN vsock_queues THEN vsock_queues[p].txq ELSE << >>
RxQ(p) == IF p \in DOMAIN vsock_queues THEN vsock_queues[p].rxq ELSE << >>

\* C13: the VM Engine holds a live mapping (vsock queue pair) for the port of
\* every container that holds one: once Vm::connect(port), which create issues
\* for the container's port, has returned Ok, the port has a queue pair.
C13_LiveMappingWhileConnected ==
    \A p \in Ports :
        (vm_last = VmLast("connect", p, "Ok")) => p \in DOMAIN vsock_queues

C14_RoundTrip ==
    \A k \in 1..Len(fr_sent) :
        recv(fr_sent[k].type, to_string(fr_sent[k]) \o <<NUL>>) = FrOk(fr_sent[k])

\* A value whose string holds U+0000 went through the stream and came back.
C14_Witness ==
    \E k \in 1..Len(fr_sent) :
        /\ fr_sent[k].container_id = <<NUL>>
        /\ k <= Len(fr_recvd)
        /\ fr_recvd[k] = FrOk(fr_sent[k])

\* The frames of the values vs, one after another.
RECURSIVE FramesOf(_)
FramesOf(vs) ==
    IF vs = << >> THEN << >>
    ELSE to_string(Head(vs)) \o <<NUL>> \o FramesOf(Tail(vs))

\* C15: successive recv calls return the values sent, in the order sent,
\* none skipped, merged or duplicated; and a recv that has returned has
\* consumed its frame up to and including the NUL and nothing beyond: what
\* is left in the stream is exactly the frames not yet received (and the
\* text of the send in progress).
C15_FramesInOrder ==
    /\ \A k \in 1..Len(fr_recvd) :
          IF k <= Len(fr_sent) THEN fr_recvd[k] = FrOk(fr_sent[k])
          ELSE ~fr_recvd[k].ok
    /\ (fr_pc = "idle" /\ ~fr_closed)
       => /\ Len(fr_recvd) <= Len(fr_sent)
          /\ fr_stream = FramesOf(SubSeq(fr_sent, Len(fr_recvd) + 1, Len(fr_sent)))
                         \o (IF fr_writing = << >> THEN << >>
                             ELSE to_string(fr_writing[1]))

\* Two different values were sent and both recv calls have returned.
C15_Witness ==
    /\ Len(fr_sent) = 2 /\ Len(fr_recvd) = 2
    /\ fr_sent[1] # fr_sent[2]
    /\ fr_recvd = <<FrOk(fr_sent[1]), FrOk(fr_sent[2])>>

\* C16: recv returns only when it has read a NUL or the stream has ended;
\* without a NUL in the bytes it was given it returns an error, never a
\* value, and while the stream is open it stays inside recv.
C16_NoValueFromUnterminatedFrame ==
    [][(fr_pc = "reading" /\ fr_pc' = "idle" /\ ~HasFrameEnd(fr_stream))
       => (/\ fr_closed
           /\ ~fr_recvd'[Len(fr_recvd')].ok)]_vars

\* recv has read the text of a frame whose NUL is not written yet, and waits.
C16_Witness ==
    /\ fr_pc = "reading"
    /\ fr_buf # << >>
    /\ fr_stream = << >>
    /\ ~fr_closed

\* =================================================================
\* Properties of the VM Engine's connections (checked under SpecVm)
\* =================================================================

\* The step is the call o on port p of the Vm.
VmCallStep(o, p) ==
    /\ vm_calls' = vm_calls + 1
    /\ vm_last'.op = o
    /\ vm_last'.port = p

\* C21: a connect on a port for which an earlier connect returned Ok (and no
\* disconnect succeeded since: none ever does while the port has no queue
\* pair) returns InvalidVsockPort and leaves the connection and the queues
\* as they are.
C21_SecondConnectRefused ==
    [][\A p \in Ports :
         (vm_conn[p] # "none" /\ VmCallStep("connect", p))
         => (/\ vm_last'.ret = InvalidVsockPort
             /\ vm_conn' = vm_conn
             /\ vsock_queues' = vsock_queues)]_vars

\* C22: after a connect that returned Ok, disconnect on the port returns Ok
\* and the port has no mapping afterwards.
C22_DisconnectAfterConnect ==
    [][\A p \in Ports :
         (vm_conn[p] # "none" /\ VmCallStep("disconnect", p))
         => (/\ vm_last'.ret = "Ok"
             /\ p \notin DOMAIN vsock_queues')]_vars

\* C25: when connect has returned Ok, the completion handler of the
\* connection has fired and has obtained a guest connection.
C25_ConnectReturnsHandlerOutcome ==
    \A p \in Ports :
        vm_last = VmLast("connect", p, "Ok") => vm_conn[p] \notin {"requested", "refused"}

\* =================================================================
\* connect (checked under SpecApi)
\* =================================================================

C27_CreateOverBootstrapPort ==
    [][\A t \in Tasks :
         (pc[t] = "create_send" /\ pc'[t] = "create_recv")
         => cmd_chan'[Len(cmd_chan')].port # port_local[t]]_vars

\* C28: every message handed to VsockSend is a JSON object followed by a
\* NUL byte.
C28_RequestsAreNulTerminated ==
    \A k \in 1..Len(cmd_chan) :
        cmd_chan[k].cmd = "VsockSend"
        => (/\ Head(cmd_chan[k].msg) = "{"
            /\ cmd_chan[k].msg[Len(cmd_chan[k].msg)] = NUL)

\* C30: while a create waits for the agent's reply, a called operation on a
\* different container can run.
C30_NoHeadOfLineBlocking ==
    \A t, u \in Tasks :
        (/\ pc[t] = "create_recv"
         /\ pc[u] = "called"
         /\ req[u].id # req[t].id)
        => (\/ ENABLED do_start(u) \/ ENABLED do_kill(u) \/ ENABLED do_delete(u)
            \/ ENABLED do_connect(u) \/ ENABLED do_state_lock(u)
            \/ ENABLED do_create_lock(u))

\* =================================================================
\* Properties of the VM thread (checked under SpecEngine)
\* =================================================================

\* C24: the commands are executed in the order they were sent, one at a
\* time: the commands done, the one in its Vm call and those still in the
\* channel are the commands sent, in that order; and a command is taken
\* from the channel only when the Vm call of the one before has returned,
\* with no block of it left on the queue.
C24_CommandsInOrder ==
    /\ eng_thread = "running" => eng_done \o eng_cur \o eng_chan = eng_sent
    /\ Len(eng_cur) <= 1
    /\ eng_q # "none" => eng_cur # << >>

\* Three commands have been done and they are the first three sent.
C24_Witness ==
    /\ Len(eng_done) = 3
    /\ eng_done[2] # eng_done[3]
    /\ eng_done = SubSeq(eng_sent, 1, 3)

\* C26: whenever the engine is in a Connect or a Disconnect, the VM is
\* Running: the Start that main sent has completed without an error.
C26_ConnectOnlyWhenRunning ==
    (eng_cur # << >> /\ eng_cur[1].cmd \in {"Connect", "Disconnect"})
    => (eng_vm = "Running" /\ eng_done # << >> /\ eng_done[1] = VmStart)

\* The engine is in a Disconnect that was sent after a Connect.
C26_Witness ==
    /\ eng_cur # << >>
    /\ eng_cur[1].cmd = "Disconnect"
    /\ \E k \in 1..Len(eng_done) : eng_done[k].cmd = "Connect"
    /\ eng_vm = "Running"

\* C29: when a VsockSend or a Disconnect fails for its port, the command
\* loop keeps running and keeps the commands that wait in the channel.
C29_PortFailureIsLocal ==
    [][(/\ eng_thread = "running"
        /\ eng_cur # << >>
        /\ eng_cur' = << >>
        /\ eng_cur[1].cmd \in {"VsockSend", "Disconnect"})
       => (eng_thread' = "running" /\ eng_chan' = eng_chan)]_vars

\* =================================================================
\* The commands ContainerService enqueues for a port (checked under Spec)
\* =================================================================

\* Port p is open for the engine as far as the enqueued commands go: the
\* last Connect(p) or Disconnect(p) in the channel is a Connect, or there is
\* none in the channel and the VM thread has p connected.
PortOpen(p) ==
    LET ks == {k \in 1..Len(cmd_chan) :
                 cmd_chan[k].port = p /\ cmd_chan[k].cmd \in {"Connect", "Disconnect"}}
    IN IF ks = {} THEN p \in connected ELSE cmd_chan[SetMax(ks)].cmd = "Connect"

ApiRemovable(i) ==
    \/ ApiDeleteAccepts(api_state_map[i].status)
    \/ /\ ApiKillAccepts(api_state_map[i].status)
       /\ api_state_map[i].tx
       /\ api_thread[i] = "running"

\* C34: every container in the state map whose create has returned can
\* still be removed by some sequence of kill and delete calls.
C34_EveryContainerRemovable ==
    \A i \in DOMAIN api_state_map : i # api_creating => ApiRemovable(i)

\* =================================================================
\* The shim's state machine (checked under SpecShim)
\* =================================================================

\* C36: every entry in the shim's state map whose create has returned has a
\* thread handle and a command sender, and delete, start and state never
\* panic on an absent handle.
C36_EntriesHaveThreadAndSender ==
    /\ \A i \in DOMAIN sh_state_map :
         i # sh_creating => sh_state_map[i].thread /\ sh_state_map[i].tx
    /\ sh_last.op \in {"delete", "start", "state"} => sh_last.ret # Panicked

\* This step is the shim's handler of operation o on container i.
TaskCallStep(o, i) ==
    /\ sh_calls' = sh_calls + 1
    /\ sh_last'.op = o
    /\ sh_last'.id = i

\* The Control Server's match arms for operation o, and the status (or
\* removal, "-") that follows a successful call.
ServerAccepts(o, s) ==
    CASE o = "start" -> StartAccepts(s)
      [] o = "kill" -> KillAccepts(s)
      [] o = "delete" -> DeleteAccepts(s)
ServerStatusAfter(o) ==
    CASE o = "start" -> "Running"
      [] o = "kill" -> "Stopped"
      [] o = "delete" -> "-"
TaskStatusOf(m, i) == IF i \in DOMAIN m THEN m[i].status ELSE "-"

\* C38: on a container in the state map the shim's start, kill and delete
\* are accepted in exactly the statuses in which the Control Server's match
\* arms accept them, and a call that succeeds leaves the status the Control
\* Server's would.
C38_ShimAcceptsWhatServerAccepts ==
    [][\A o \in {"start", "kill", "delete"}, i \in Ids :
          TaskCallStep(o, i) /\ ~sh_poisoned /\ i \in DOMAIN sh_state_map
          => /\ (sh_last'.ret # TaskUnexpectedStatus)
                  <=> ServerAccepts(o, sh_state_map[i].status)
             /\ sh_last'.ret = Ok
                  => TaskStatusOf(sh_state_map', i) = ServerStatusAfter(o)]_vars

\* =================================================================
\* Delivery to the guest (checked under SpecVm and SpecVmLive)
\* =================================================================

C37_SentIsEventuallyWritten ==
    \A p \in Ports :
        (vm_conn[p] \in {"open", "closed"} /\ vm_sent[p] # << >>)
        ~> (vm_written[p] # << >>)

\* =================================================================
\* Termination of create (checked under Spec)
\* =================================================================

\* C33: a create that waits on the data channel with nothing in it has a
\* VsockRecv command on its way to the VM thread, the only command whose
\* handling sends on the data channel.
C33_CreateWaitsForRequestedData ==
    \A t \in Tasks :
        (pc[t] = "create_recv" /\ data_chan = << >>)
        => \E k \in 1..Len(cmd_chan) : cmd_chan[k].cmd = "VsockRecv"

====
